---- MODULE Spec2Model ----
(***************************************************************************)
(* Streaming response pipeline of the chat backend.                       *)
(*                                                                         *)
(*   coordinator : async generator  stream_chat_response       (chat.py)   *)
(*   bridge      : sync generator   stream_chat_response_sync  (chat.py)   *)
(*   encoder     : SSEService.format_sse / stream_error                    *)
(*   sink        : ChatService.add_message                                 *)
(*   source      : LLMService.stream_chat                                  *)
(*                                                                         *)
(* The transport (consumer) drives a bridge with next() and close().  One  *)
(* next() of the bridge runs the coordinator from one yield to the next,   *)
(* so every Pull action below is one complete next() call.                 *)
(***************************************************************************)
EXTENDS Integers, Sequences, FiniteSets, TLC

----------------------------------------------------------------------------
(* Bounds of the model *)

\* most fragments one generation source yields
MaxFragments == 2
\* most times the transport asks again after end-of-stream was reported
MaxPullsAfterEnd == 2
\* most empty chunks llm.stream() hands over during one stream
MaxEmptyChunks == 1


\* longest payload text handed to the encoder
MaxTextLen == 2

\* characters of payload text: a letter and the three json.dumps must escape
PayloadChars == {"a", "\n", "\"", "\\"}
Texts == UNION {[1..n -> PayloadChars] : n \in 0..MaxTextLen}

\* event names the callers pass (streaming_service.py:68,84,100,116)
Channels == {"message", "error", "tool", "data"}
ToolNames == {<<"get_weather">>}
DataTypes == {<<"status">>}
\* classes json has no encoding for
UnencodableClasses == {"bytes", "datetime", "set"}



\* longest message history handed to _convert_messages_to_prompt
MaxHistory == 2

\* most chats created, most message rows the endpoints add
MaxChats == 2
MaxMessages == 2

\* get_messages(..., limit: int = 100)
DefaultLimit == 100

\* authenticated users; NoUser is a request without a valid identity
Users == {"u1", "u2"}
NoUser == "anonymous"

\* requests whose streams exist; Spec drives stream 1 alone
Streams == {1, 2}
Active == {1}

\* text fragments the source can yield (truthy chunks only, llm_service.py:175)
Tokens == {<<"a">>, <<"b", "c">>}

\* failures the generation source can raise, all of them Exception subclasses
SourceFailures == {[type |-> "TimeoutError", args |-> << <<"timeout">> >>],
                   [type |-> "ConnectionError", args |-> << <<"refused">> >>]}

\* failure add_message can raise (db.commit or db.refresh)
StoreFailure == [type |-> "OperationalError", args |-> << <<"db down">> >>]

\* how one add_message call can end: stored, raised at commit (nothing
\* stored), raised at refresh (row already committed)
PersistOutcomes == {"ok", "commit_raises", "refresh_raises"}

----------------------------------------------------------------------------
VARIABLES
    bridge_pc,      \* bridge generator: "unstarted", "suspended" (at yield chunk), "finished"
    loop,           \* the bridge's event loop: "none", "open", "closed"
    co_pc,          \* coordinator generator: "none", "at_start", "at_delta",
                    \* "at_finish", "at_error" (suspended at that yield),
                    \* "done" (ran to its end), "closed" (GeneratorExit at a yield)
    assistant_message_id,  \* id drawn by the coordinator, 0 before it starts
    full_response,  \* the coordinator's accumulated text
    emitted,        \* wire units the coordinator has yielded, in order
    delivered,      \* wire units the bridge has yielded to the transport
    src_pc,         \* generation source: "unopened", "streaming", "exhausted",
                    \* "failed", "released"
    src_pulls,      \* fragments obtained from the source
    src_raw,        \* chunks llm.stream() has handed to stream_chat
    persist_calls,  \* add_message calls made by the coordinator: [text, outcome]
    db_closes,      \* number of db.close() calls on the request's session
    eos,            \* times the bridge reported end-of-stream (StopIteration)
    escaped,        \* an exception left the bridge towards the transport
    closed_early,   \* the transport closed the bridge before end-of-stream
    log,            \* side effects of the stream in program order; an exception
                    \* raised into the coordinator is logged by its class
    messages,       \* the store: rows [chat_id, role, text] in insertion order
    uuid_count,     \* uuid4() values drawn so far for message ids
    enc,            \* last direct call of an SSEService formatter and its result
    chats,          \* the store: chat rows [id, user_id]
    chat_seq,       \* uuid4() values drawn so far for chat ids
    resp,           \* last request handled by a chat endpoint and its response
    chat_of,        \* the chat_id argument of each stream
    built,          \* streaming responses the endpoint has handed to the transport
    sse,            \* a generator made by SSEService.stream_chat_response
    prompt          \* last call of LLMService._convert_messages_to_prompt

\* the endpoints' state besides the message rows
apivars == <<chats, chat_seq, resp>>

\* which request each stream serves
linkvars == <<chat_of, built>>

\* direct calls of the services
callvars == <<enc, sse, prompt>>

\* state outside the streams
nonstream == <<enc, chats, chat_seq, resp, chat_of, built, sse, prompt>>

streamvars == <<bridge_pc, loop, co_pc, assistant_message_id, full_response, emitted,
                delivered, src_pc, src_pulls, src_raw, persist_calls, db_closes, eos,
                escaped, closed_early, log, messages, uuid_count>>

\* the streams' state besides the message rows
runvars == <<bridge_pc, loop, co_pc, assistant_message_id, full_response, emitted,
             delivered, src_pc, src_pulls, src_raw, persist_calls, db_closes, eos,
             escaped, closed_early, log, uuid_count>>

vars == <<bridge_pc, loop, co_pc, assistant_message_id, full_response, emitted,
          delivered, src_pc, src_pulls, src_raw, persist_calls, db_closes, eos,
          escaped, closed_early, log, messages, uuid_count, enc, chats, chat_seq, resp,
          chat_of, built, sse, prompt>>

----------------------------------------------------------------------------
(* Helpers *)

Upd(f, s, v) == [f EXCEPT ![s] = v]

RECURSIVE Concat(_)
Concat(ss) == IF ss = <<>> THEN <<>> ELSE Head(ss) \o Concat(Tail(ss))

Last(q) == q[Len(q)]

\* chat the request of stream s was resolved to
ChatOf(s) == chat_of[s]

\* variant: the class name in place of the description
str_ClassName(e) == <<e.type>>

\* str(e) of an exception raised with one argument: that argument
str(e) == e.args[1]

----------------------------------------------------------------------------
(* Event encoder *)

(* Text is a sequence of symbols.  A symbol is one character where the
   character matters to the wire format (newline, quote, backslash) and may
   be a whole word of other characters ("event: ", "message-start").  A
   Python value handed to json.dumps is a pair <<tag, value>>; a dict is a
   sequence of <<key, value>> pairs in insertion order. *)
Str(text) == <<"str", text>>
None == <<"null", <<>>>>
Number(digits) == <<"int", <<digits>>>>
List(items) == <<"list", items>>
Dict(pairs) == <<"dict", pairs>>
\* an instance of a class json has no encoding for (bytes, set, datetime, UUID)
Object(class) == <<"object", <<class>>>>

\* variant: the text is put between the quotes as it is
EscapeChar_Raw(c) == <<c>>

\* json.dumps escapes of a character inside a string
EscapeChar(c) ==
    CASE c = "\n" -> <<"\\", "n">>
      [] c = "\"" -> <<"\\", "\"">>
      [] c = "\\" -> <<"\\", "\\">>
      [] OTHER -> <<c>>

Quote(text) ==
    <<"\"">> \o Concat([i \in 1..Len(text) |-> EscapeChar(text[i])]) \o <<"\"">>

RECURSIVE Serializable(_)
\* json.dumps raises TypeError on a value that holds an object it cannot encode
Serializable(x) ==
    CASE x[1] = "object" -> FALSE
      [] x[1] = "list" -> \A i \in 1..Len(x[2]) : Serializable(x[2][i])
      [] x[1] = "dict" -> \A i \in 1..Len(x[2]) : Serializable(x[2][i][2])
      [] OTHER -> TRUE

RECURSIVE json_dumps(_)
\* json.dumps(x) with the default separators
json_dumps(x) ==
    CASE x[1] = "str" -> Quote(x[2])
      [] x[1] = "null" -> <<"null">>
      [] x[1] = "int" -> x[2]
      [] x[1] = "list" ->
            <<"[">> \o Concat([i \in 1..Len(x[2]) |->
                          (IF i = 1 THEN <<>> ELSE <<", ">>) \o json_dumps(x[2][i])])
                    \o <<"]">>
      [] x[1] = "dict" ->
            <<"{">> \o Concat([i \in 1..Len(x[2]) |->
                          (IF i = 1 THEN <<>> ELSE <<", ">>)
                              \o Quote(<<x[2][i][1]>>) \o <<": ">> \o json_dumps(x[2][i][2])])
                    \o <<"}">>

\* sep.join(lines)
Join(sep, lines) ==
    Concat([i \in 1..Len(lines) |-> (IF i = 1 THEN <<>> ELSE <<sep>>) \o lines[i]])

\* data[key]
Field(data, key) ==
    data[CHOOSE i \in 1..Len(data) : data[i][1] = key][2]

\* the unit format_sse returns: its text, kept with the arguments it encodes
format_sse(data, event) ==
    [event |-> event,
     data |-> data,
     wire |-> Join("\n", << <<"event: ", event>>,
                           <<"data: ">> \o json_dumps(Dict(data)),
                           <<>> >>) \o <<"\n">>]

stream_error(error_message) ==
    format_sse(<< <<"type", Str(<<"error">>)>>,
                  <<"error", Str(error_message)>>,
                  <<"code", Str(<<"internal_error">>)>> >>,
               "error")

stream_tool_result(tool_name, tool_output) ==
    format_sse(<< <<"type", Str(<<"tool-result">>)>>,
                  <<"tool", Str(tool_name)>>,
                  <<"output", tool_output>> >>,
               "tool")

stream_data(data_type, data) ==
    format_sse(<< <<"type", Str(<<"data-">> \o data_type)>>,
                  <<"data", data>> >>,
               "data")

\* str(uuid)
UuidStr(id) == <<ToString(id)>>

MessageStart(id, chat_id) ==
    format_sse(<< <<"type", Str(<<"message-start">>)>>,
                  <<"id", Str(UuidStr(id))>>,
                  <<"chat_id", Str(UuidStr(chat_id))>> >>,
               "message")

TextDelta(token) ==
    format_sse(<< <<"type", Str(<<"text-delta">>)>>,
                  <<"content", Str(token)>> >>,
               "message")

MessageFinish(id) ==
    format_sse(<< <<"type", Str(<<"message-finish">>)>>,
                  <<"id", Str(UuidStr(id))>> >>,
               "message")

TypeOf(unit) == Field(unit.data, "type")[2][1]
IsTerminal(unit) == TypeOf(unit) \in {"message-finish", "error"}

----------------------------------------------------------------------------
(* Requests to the chat endpoints *)

\* a chat id as the client sends it: absent, not a UUID, or a UUID
NoChatArg == [kind |-> "absent", id |-> 0]
ChatIdArgs ==
    {NoChatArg, [kind |-> "malformed", id |-> 0]}
        \cup {[kind |-> "uuid", id |-> i] : i \in 1..MaxChats}

\* the "message" object of the body: keys it holds, and its parts (the text
\* of the parts; [] is the empty text)
NoMessage == [present |-> FALSE, keys |-> {}, role |-> "user", parts |-> <<>>]
UserParts == {<<>>, <<"h", "i">>}
MessageArgs ==
    {NoMessage}
        \cup {[present |-> TRUE, keys |-> k, role |-> "user", parts |-> p] :
                 k \in SUBSET {"role", "parts"},
                 p \in {q \in UserParts : q = <<>>}}
        \cup {[present |-> TRUE, keys |-> k \cup {"parts"}, role |-> "user", parts |-> p] :
                 k \in SUBSET {"role"},
                 p \in UserParts \ {<<>>}}

\* request.json: None, or the decoded object
NoBody == [json |-> "none", chat_id |-> NoChatArg, message |-> NoMessage,
           model_id |-> FALSE]
Bodies ==
    {NoBody, [NoBody EXCEPT !.json = "object", !.model_id = TRUE]}
        \cup {[json |-> "object", chat_id |-> c, message |-> m, model_id |-> FALSE] :
                 c \in ChatIdArgs, m \in MessageArgs}

\* keys of the decoded object
BodyKeys(body) ==
    (IF body.chat_id.kind # "absent" THEN {"chat_id"} ELSE {})
        \cup (IF body.message.present THEN {"message"} ELSE {})
        \cup (IF body.model_id THEN {"model_id"} ELSE {})

\* a request as an endpoint receives it, with the response fields unset
Request(op, user, chat_arg, body) ==
    [op |-> op, user |-> user, chat_arg |-> chat_arg, body |-> body,
     status |-> 0, error |-> "", deleted |-> FALSE, stream |-> <<>>,
     listed |-> <<>>, title_calls |-> 0, db |-> "none"]

\* jsonify({"error": error}), status
Reply(r, status, error, db) ==
    [r EXCEPT !.status = status, !.error = error, !.db = db]

\* no generator of SSEService.stream_chat_response has been made
NoGenerator ==
    [pc |-> "none", tokens |-> <<>>, fails |-> FALSE, message_id |-> <<>>,
     taken |-> 0, out |-> <<>>, raised |-> "none", eos |-> 0]

----------------------------------------------------------------------------
Init ==
    /\ bridge_pc = [s \in Streams |-> "unstarted"]
    /\ loop = [s \in Streams |-> "none"]
    /\ co_pc = [s \in Streams |-> "none"]
    /\ assistant_message_id = [s \in Streams |-> 0]
    /\ full_response = [s \in Streams |-> <<>>]
    /\ emitted = [s \in Streams |-> <<>>]
    /\ delivered = [s \in Streams |-> <<>>]
    /\ src_pc = [s \in Streams |-> "unopened"]
    /\ src_pulls = [s \in Streams |-> 0]
    /\ src_raw = [s \in Streams |-> <<>>]
    /\ persist_calls = [s \in Streams |-> <<>>]
    /\ db_closes = [s \in Streams |-> 0]
    /\ eos = [s \in Streams |-> 0]
    /\ escaped = [s \in Streams |-> FALSE]
    /\ closed_early = [s \in Streams |-> FALSE]
    /\ log = [s \in Streams |-> <<>>]
    /\ messages = <<>>
    /\ uuid_count = 0
    /\ enc = [fn |-> "none", args |-> <<>>, raised |-> "none", unit |-> <<>>]
    /\ chats = {}
    /\ chat_seq = 0
    /\ resp = Request("none", NoUser, NoChatArg, NoBody)
    /\ chat_of = [s \in Streams |-> s]
    /\ built = 0
    /\ sse = NoGenerator
    /\ prompt = [fn |-> "none", messages |-> <<>>, system_prompt |-> <<>>, result |-> <<>>]

----------------------------------------------------------------------------
(* Persistence sink and exception handling *)

\* datetime.utcnow() at the time of a call: later than the created_at of
\* every row stored by an earlier call (time is kept by its rank only)
utcnow(rows) ==
    IF rows = <<>>
    THEN 1
    ELSE 1 + (CHOOSE t \in {rows[i].created_at : i \in 1..Len(rows)} :
                 \A i \in 1..Len(rows) : rows[i].created_at <= t)

\* ChatService.add_message: the row is in the store once db.commit() returned
add_message(rows, chat_id, role, text, outcome) ==
    IF outcome = "commit_raises"
    THEN rows
    ELSE Append(rows, [chat_id |-> chat_id, role |-> role, text |-> text,
                       created_at |-> utcnow(rows)])

\* classes derived from Exception
ExceptionClasses == {"TimeoutError", "ConnectionError", "OperationalError"}

\* variant: the handler names one class, "except TimeoutError as e"
Handles_OnlyTimeout(e) == e.type = "TimeoutError"

\* "except Exception as e" of the coordinator
Handles(e) == e.type \in ExceptionClasses

----------------------------------------------------------------------------
(* Generation source: LLMService.stream_chat over llm.stream(prompt) *)

Empties(n) == [i \in 1..n |-> <<>>]

EmptyCount(raw) == Cardinality({i \in 1..Len(raw) : raw[i] = <<>>})

\* "if chunk:"
Truthy(chunk) == chunk # <<>>

\* stream_chat resumed over the chunks raw: the index of the chunk it yields,
\* 0 when it passes over all of them
FirstYield(raw) ==
    IF \E i \in 1..Len(raw) : Truthy(raw[i])
    THEN CHOOSE i \in 1..Len(raw) :
             Truthy(raw[i]) /\ \A j \in 1..(i - 1) : ~Truthy(raw[j])
    ELSE 0

\* what llm.stream() can hand over next: some empty chunks, then a fragment
\* or nothing more
RawRuns(s) ==
    {Empties(n) \o tail : n \in 0..(MaxEmptyChunks - EmptyCount(src_raw[s])),
                          tail \in {<<>>} \cup {<<t>> : t \in Tokens}}

----------------------------------------------------------------------------
(* One __anext__ of the coordinator as seen through the bridge *)

\* variant: the chunk is yielded a second time when the generator is resumed
BridgeYield_Twice(s, chunk) ==
    /\ delivered' = Upd(delivered, s, delivered[s] \o <<chunk, chunk>>)
    /\ bridge_pc' = Upd(bridge_pc, s, "suspended")

\* "yield chunk": the bridge hands the unit run_until_complete returned to
\* the transport and suspends
BridgeYield(s, chunk) ==
    /\ delivered' = Upd(delivered, s, Append(delivered[s], chunk))
    /\ bridge_pc' = Upd(bridge_pc, s, "suspended")

\* the coordinator yields `unit` and suspends at `pc`; __anext__ returns it
\* to the bridge (chat.py:99)
CoYield(s, unit, pc, before) ==
    /\ emitted' = Upd(emitted, s, Append(emitted[s], unit))
    /\ co_pc' = Upd(co_pc, s, pc)
    /\ BridgeYield(s, unit)
    /\ log' = Upd(log, s, log[s] \o before \o <<TypeOf(unit)>>)
    /\ UNCHANGED <<db_closes, eos, escaped>>

\* an exception the coordinator does not handle: its finally closes the
\* session, the bridge's "except StopAsyncIteration" does not match, the
\* bridge's finally closes the loop and the exception reaches the transport
CoRaise(s, before) ==
    /\ co_pc' = Upd(co_pc, s, "done")
    /\ db_closes' = Upd(db_closes, s, db_closes[s] + 1)
    /\ loop' = Upd(loop, s, "closed")
    /\ bridge_pc' = Upd(bridge_pc, s, "finished")
    /\ escaped' = Upd(escaped, s, TRUE)
    /\ log' = Upd(log, s, log[s] \o before \o <<"db.close", "loop.close", "raise">>)
    /\ UNCHANGED <<emitted, delivered, eos>>

\* the coordinator is suspended inside the try block, before or in the loop
InLoop(s) == bridge_pc[s] = "suspended" /\ co_pc[s] \in {"at_start", "at_delta"}

----------------------------------------------------------------------------
(* Transport operations on the bridge of stream s *)

\* variant: message-start is yielded inside the try block's loop, so a source
\* that fails on its first pull makes the error event the first event
PullStart_NoStartOnFailure(s) ==
    /\ bridge_pc[s] = "unstarted"
    /\ loop' = Upd(loop, s, "open")
    /\ uuid_count' = uuid_count + 1
    /\ assistant_message_id' = Upd(assistant_message_id, s, uuid_count + 1)
    /\ full_response' = Upd(full_response, s, <<>>)
    /\ src_pc' = Upd(src_pc, s, "failed")
    /\ \E e \in SourceFailures :
        CoYield(s, stream_error(str(e)), "at_error", <<"loop.new", "source">>)
    /\ UNCHANGED <<src_pulls, persist_calls, closed_early, messages, src_raw>>
    /\ UNCHANGED nonstream

\* variant: the message id is drawn once, when the module is loaded
PullStart_SharedId(s) ==
    /\ bridge_pc[s] = "unstarted"
    /\ loop' = Upd(loop, s, "open")
    /\ uuid_count' = 1
    /\ assistant_message_id' = Upd(assistant_message_id, s, 1)
    /\ full_response' = Upd(full_response, s, <<>>)
    /\ CoYield(s, MessageStart(1, ChatOf(s)), "at_start", <<"loop.new">>)
    /\ UNCHANGED <<src_pc, src_pulls, persist_calls, closed_early, messages, src_raw>>
    /\ UNCHANGED nonstream

\* first next(): the bridge creates its loop and the coordinator, which draws
\* its message id and yields message-start
PullStart(s) ==
    /\ bridge_pc[s] = "unstarted"
    /\ loop' = Upd(loop, s, "open")
    /\ uuid_count' = uuid_count + 1
    /\ assistant_message_id' = Upd(assistant_message_id, s, uuid_count + 1)
    /\ full_response' = Upd(full_response, s, <<>>)
    /\ CoYield(s, MessageStart(uuid_count + 1, ChatOf(s)), "at_start", <<"loop.new">>)
    /\ UNCHANGED <<src_pc, src_pulls, persist_calls, closed_early, messages, src_raw>>
    /\ UNCHANGED nonstream

\* variant: "full_response = token" in place of "full_response += token"
PullToken_Overwrite(s) ==
    /\ InLoop(s)
    /\ src_pulls[s] < MaxFragments
    /\ \E raw \in RawRuns(s) :
        /\ FirstYield(raw) > 0
        /\ src_raw' = Upd(src_raw, s, src_raw[s] \o SubSeq(raw, 1, FirstYield(raw)))
        /\ full_response' = Upd(full_response, s, raw[FirstYield(raw)])
        /\ CoYield(s, TextDelta(raw[FirstYield(raw)]), "at_delta", <<"source">>)
    /\ src_pc' = Upd(src_pc, s, "streaming")
    /\ src_pulls' = Upd(src_pulls, s, src_pulls[s] + 1)
    /\ UNCHANGED <<loop, assistant_message_id, persist_calls, closed_early,
                   messages, uuid_count>>
    /\ UNCHANGED nonstream

\* variant: the accumulated text is one module-level buffer shared by all
\* running coordinators
PullToken_SharedBuffer(s) ==
    /\ InLoop(s)
    /\ src_pulls[s] < MaxFragments
    /\ \E raw \in RawRuns(s) :
        /\ FirstYield(raw) > 0
        /\ src_raw' = Upd(src_raw, s, src_raw[s] \o SubSeq(raw, 1, FirstYield(raw)))
        /\ full_response' = [t \in Streams |-> full_response[t] \o raw[FirstYield(raw)]]
        /\ CoYield(s, TextDelta(raw[FirstYield(raw)]), "at_delta", <<"source">>)
    /\ src_pc' = Upd(src_pc, s, "streaming")
    /\ src_pulls' = Upd(src_pulls, s, src_pulls[s] + 1)
    /\ UNCHANGED <<loop, assistant_message_id, persist_calls, closed_early,
                   messages, uuid_count>>
    /\ UNCHANGED nonstream

\* next(): the source yields a fragment, the first non-empty chunk
PullToken(s) ==
    /\ InLoop(s)
    /\ src_pulls[s] < MaxFragments
    /\ \E raw \in RawRuns(s) :
        /\ FirstYield(raw) > 0
        /\ src_raw' = Upd(src_raw, s, src_raw[s] \o SubSeq(raw, 1, FirstYield(raw)))
        /\ full_response' = Upd(full_response, s, full_response[s] \o raw[FirstYield(raw)])
        /\ CoYield(s, TextDelta(raw[FirstYield(raw)]), "at_delta", <<"source">>)
    /\ src_pc' = Upd(src_pc, s, "streaming")
    /\ src_pulls' = Upd(src_pulls, s, src_pulls[s] + 1)
    /\ UNCHANGED <<loop, assistant_message_id, persist_calls, closed_early,
                   messages, uuid_count>>
    /\ UNCHANGED nonstream

\* next(): the source is exhausted; the reply is saved, then message-finish
\* is yielded; a failure of the save is caught by the coordinator's except
PullExhaust(s) ==
    /\ InLoop(s)
    /\ src_pc' = Upd(src_pc, s, "exhausted")
    /\ \E raw \in RawRuns(s) :
        /\ FirstYield(raw) = 0
        /\ src_raw' = Upd(src_raw, s, src_raw[s] \o raw)
    /\ \E outcome \in PersistOutcomes :
        /\ persist_calls' = Upd(persist_calls, s,
               Append(persist_calls[s], [text |-> full_response[s], outcome |-> outcome]))
        /\ messages' = add_message(messages, ChatOf(s), "assistant", full_response[s], outcome)
        /\ IF outcome = "ok"
           THEN /\ CoYield(s, MessageFinish(assistant_message_id[s]), "at_finish",
                           <<"source", "add_message">>)
                /\ UNCHANGED loop
           ELSE IF Handles(StoreFailure)
           THEN /\ CoYield(s, stream_error(str(StoreFailure)), "at_error",
                           <<"source", "add_message", StoreFailure.type>>)
                /\ UNCHANGED loop
           ELSE CoRaise(s, <<"source", "add_message", StoreFailure.type>>)
    /\ UNCHANGED <<assistant_message_id, full_response, src_pulls, closed_early, uuid_count>>
    /\ UNCHANGED nonstream

\* variant: the handler swallows the failure ("except Exception: pass"), so
\* the coordinator ends without a terminal event
PullSourceFail_Swallow(s) ==
    /\ InLoop(s)
    /\ src_pc' = Upd(src_pc, s, "failed")
    /\ co_pc' = Upd(co_pc, s, "done")
    /\ db_closes' = Upd(db_closes, s, db_closes[s] + 1)
    /\ loop' = Upd(loop, s, "closed")
    /\ bridge_pc' = Upd(bridge_pc, s, "finished")
    /\ eos' = Upd(eos, s, eos[s] + 1)
    /\ log' = Upd(log, s, log[s] \o <<"source", "db.close", "loop.close", "eos">>)
    /\ UNCHANGED <<assistant_message_id, full_response, emitted, delivered, src_pulls,
                   persist_calls, escaped, closed_early, messages, uuid_count,
                   src_raw>>
    /\ UNCHANGED nonstream

\* next(): the source raises
PullSourceFail(s) ==
    /\ InLoop(s)
    /\ src_pc' = Upd(src_pc, s, "failed")
    /\ \E raw \in RawRuns(s) :
        /\ FirstYield(raw) = 0
        /\ src_raw' = Upd(src_raw, s, src_raw[s] \o raw)
    /\ \E e \in SourceFailures :
        IF Handles(e)
        THEN /\ CoYield(s, stream_error(str(e)), "at_error", <<"source", e.type>>)
             /\ UNCHANGED loop
        ELSE CoRaise(s, <<"source", e.type>>)
    /\ UNCHANGED <<assistant_message_id, full_response, src_pulls, persist_calls,
                   closed_early, messages, uuid_count>>
    /\ UNCHANGED nonstream

\* variant: the reply is saved in the finally block as well
PullEnd_PersistAgain(s) ==
    /\ bridge_pc[s] = "suspended"
    /\ co_pc[s] \in {"at_finish", "at_error"}
    /\ co_pc' = Upd(co_pc, s, "done")
    /\ persist_calls' = Upd(persist_calls, s,
           Append(persist_calls[s], [text |-> full_response[s], outcome |-> "ok"]))
    /\ messages' = add_message(messages, ChatOf(s), "assistant", full_response[s], "ok")
    /\ db_closes' = Upd(db_closes, s, db_closes[s] + 1)
    /\ loop' = Upd(loop, s, "closed")
    /\ bridge_pc' = Upd(bridge_pc, s, "finished")
    /\ eos' = Upd(eos, s, eos[s] + 1)
    /\ log' = Upd(log, s, log[s] \o <<"add_message", "db.close", "loop.close", "eos">>)
    /\ UNCHANGED <<assistant_message_id, full_response, emitted, delivered, src_pc,
                   src_pulls, escaped, closed_early, uuid_count, src_raw>>
    /\ UNCHANGED nonstream

\* variant: "except StopAsyncIteration: continue", the bridge never leaves
\* its while loop
PullEnd_NoBreak(s) ==
    /\ bridge_pc[s] = "suspended"
    /\ co_pc[s] \in {"at_finish", "at_error"}
    /\ co_pc' = Upd(co_pc, s, "done")
    /\ db_closes' = Upd(db_closes, s, db_closes[s] + 1)
    /\ log' = Upd(log, s, Append(log[s], "db.close"))
    /\ UNCHANGED <<bridge_pc, loop, eos, assistant_message_id, full_response, emitted,
                   delivered, src_pc, src_pulls, src_raw, persist_calls, escaped,
                   closed_early, messages, uuid_count>>
    /\ UNCHANGED nonstream

\* variant: the bridge's finally closes the session as well
PullEnd_CloseTwice(s) ==
    /\ bridge_pc[s] = "suspended"
    /\ co_pc[s] \in {"at_finish", "at_error"}
    /\ co_pc' = Upd(co_pc, s, "done")
    /\ db_closes' = Upd(db_closes, s, db_closes[s] + 2)
    /\ loop' = Upd(loop, s, "closed")
    /\ bridge_pc' = Upd(bridge_pc, s, "finished")
    /\ eos' = Upd(eos, s, eos[s] + 1)
    /\ log' = Upd(log, s, log[s] \o <<"db.close", "db.close", "loop.close", "eos">>)
    /\ UNCHANGED <<assistant_message_id, full_response, emitted, delivered, src_pc,
                   src_pulls, persist_calls, escaped, closed_early, messages, uuid_count,
                   src_raw>>
    /\ UNCHANGED nonstream

\* next() after the terminal event: the coordinator leaves the try block, its
\* finally closes the session, StopAsyncIteration ends the bridge's loop and
\* the bridge's finally closes the event loop
PullEnd(s) ==
    /\ bridge_pc[s] = "suspended"
    /\ co_pc[s] \in {"at_finish", "at_error"}
    /\ co_pc' = Upd(co_pc, s, "done")
    /\ db_closes' = Upd(db_closes, s, db_closes[s] + 1)
    /\ loop' = Upd(loop, s, "closed")
    /\ bridge_pc' = Upd(bridge_pc, s, "finished")
    /\ eos' = Upd(eos, s, eos[s] + 1)
    /\ log' = Upd(log, s, log[s] \o <<"db.close", "loop.close", "eos">>)
    /\ UNCHANGED <<assistant_message_id, full_response, emitted, delivered, src_pc,
                   src_pulls, persist_calls, escaped, closed_early, messages, uuid_count,
                   src_raw>>
    /\ UNCHANGED nonstream

\* variant: a pull on the finished bridge calls the generator function anew
PullFinished_Restart(s) ==
    /\ bridge_pc[s] = "finished"
    /\ eos[s] < MaxPullsAfterEnd
    /\ eos' = Upd(eos, s, eos[s] + 1)
    /\ bridge_pc' = Upd(bridge_pc, s, "unstarted")
    /\ UNCHANGED <<loop, co_pc, assistant_message_id, full_response, emitted,
                   delivered, src_pc, src_pulls, src_raw, persist_calls, db_closes,
                   escaped, closed_early, log, messages, uuid_count>>
    /\ UNCHANGED nonstream

\* next() on a finished bridge: StopIteration again
PullFinished(s) ==
    /\ bridge_pc[s] = "finished"
    /\ eos[s] < MaxPullsAfterEnd
    /\ eos' = Upd(eos, s, eos[s] + 1)
    /\ UNCHANGED <<bridge_pc, loop, co_pc, assistant_message_id, full_response, emitted,
                   delivered, src_pc, src_pulls, src_raw, persist_calls, db_closes,
                   escaped, closed_early, log, messages, uuid_count>>
    /\ UNCHANGED nonstream

\* variant: the bridge has no try/finally around its loop
Close_NoFinally(s) ==
    /\ bridge_pc[s] # "finished"
    /\ closed_early' = Upd(closed_early, s, TRUE)
    /\ bridge_pc' = Upd(bridge_pc, s, "finished")
    /\ UNCHANGED <<loop, log, co_pc, assistant_message_id, full_response, emitted,
                   delivered, src_pc, src_pulls, src_raw, persist_calls, db_closes, eos,
                   escaped, messages, uuid_count>>
    /\ UNCHANGED nonstream

\* close() before end-of-stream.  An unstarted generator just finishes: its
\* body never ran.  A suspended one gets GeneratorExit at "yield chunk":
\* only the finally runs, which closes the loop; the coordinator is not
\* closed by the bridge.
Close(s) ==
    /\ bridge_pc[s] # "finished"
    /\ closed_early' = Upd(closed_early, s, TRUE)
    /\ bridge_pc' = Upd(bridge_pc, s, "finished")
    /\ loop' = Upd(loop, s, IF bridge_pc[s] = "unstarted" THEN loop[s] ELSE "closed")
    /\ log' = Upd(log, s, IF bridge_pc[s] = "unstarted" THEN log[s]
                          ELSE Append(log[s], "loop.close"))
    /\ UNCHANGED <<co_pc, assistant_message_id, full_response, emitted, delivered, src_pc,
                   src_pulls, src_raw, persist_calls, db_closes, eos, escaped, messages,
                   uuid_count>>
    /\ UNCHANGED nonstream

\* variant: the finally block saves whatever was accumulated before it
\* closes the session
Finalize_PersistPartial(s) ==
    /\ bridge_pc[s] = "finished"
    /\ co_pc[s] \in {"at_start", "at_delta", "at_finish", "at_error"}
    /\ co_pc' = Upd(co_pc, s, "closed")
    /\ persist_calls' = Upd(persist_calls, s,
           Append(persist_calls[s], [text |-> full_response[s], outcome |-> "ok"]))
    /\ messages' = add_message(messages, ChatOf(s), "assistant", full_response[s], "ok")
    /\ db_closes' = Upd(db_closes, s, db_closes[s] + 1)
    /\ src_pc' = Upd(src_pc, s, IF src_pc[s] = "streaming" THEN "released" ELSE src_pc[s])
    /\ log' = Upd(log, s, log[s] \o <<"add_message", "db.close">>)
    /\ UNCHANGED <<bridge_pc, loop, assistant_message_id, full_response, emitted, delivered,
                   src_pulls, eos, escaped, closed_early, uuid_count, src_raw>>
    /\ UNCHANGED nonstream

\* The interpreter reclaims the coordinator the finished bridge left
\* suspended: GeneratorExit is raised at its yield, "except Exception" does
\* not match, the finally closes the session; the source iterator it held
\* goes with it.  When this happens is up to the interpreter.
Finalize(s) ==
    /\ bridge_pc[s] = "finished"
    /\ co_pc[s] \in {"at_start", "at_delta", "at_finish", "at_error"}
    /\ co_pc' = Upd(co_pc, s, "closed")
    /\ db_closes' = Upd(db_closes, s, db_closes[s] + 1)
    /\ src_pc' = Upd(src_pc, s, IF src_pc[s] = "streaming" THEN "released" ELSE src_pc[s])
    /\ log' = Upd(log, s, Append(log[s], "db.close"))
    /\ UNCHANGED <<bridge_pc, loop, assistant_message_id, full_response, emitted, delivered,
                   src_pulls, src_raw, persist_calls, eos, escaped, closed_early, messages,
                   uuid_count>>
    /\ UNCHANGED nonstream

----------------------------------------------------------------------------
Next ==
    \E s \in Active :
        \/ PullStart(s)
        \/ PullToken(s)
        \/ PullExhaust(s)
        \/ PullSourceFail(s)
        \/ PullEnd(s)
        \/ PullFinished(s)
        \/ Close(s)
        \/ Finalize(s)

Spec == Init /\ [][Next]_vars


\* two requests streamed at the same time, each pulled by its own transport
\* thread up to its terminal event; the pulls interleave in any order.
\* Empty chunks are handed over by the source of the first request only.
NextConcurrent ==
    \E s \in Streams :
        /\ \/ PullStart(s)
           \/ PullToken(s)
           \/ PullExhaust(s)
           \/ PullSourceFail(s)
        /\ s \notin Active => EmptyCount(src_raw'[s]) = 0

SpecConcurrent == Init /\ [][NextConcurrent]_vars


\* a transport that keeps pulling and never closes
NextPull ==
    \E s \in Active :
        \/ PullStart(s)
        \/ PullToken(s)
        \/ PullExhaust(s)
        \/ PullSourceFail(s)
        \/ PullEnd(s)
        \/ PullFinished(s)

\* every next() returns, since a call of the source returns a fragment, ends
\* or raises, and the transport then calls next() again
SpecPull == Init /\ [][NextPull]_vars /\ WF_vars(NextPull)

----------------------------------------------------------------------------
(* Calls of the encoder *)

\* tool outputs and custom data (typed Any in the source)
Payloads ==
    {Str(t) : t \in Texts}
        \cup {None, Number("7")}
        \cup {List(<<Str(t)>>) : t \in Texts}
        \cup {Dict(<< <<"summary", Str(t)>> >>) : t \in Texts}
        \cup {Object(c) : c \in UnencodableClasses}
        \cup {List(<<Object(c)>>) : c \in UnencodableClasses}
        \cup {Dict(<< <<"at", Object(c)>> >>) : c \in UnencodableClasses}

\* how a call of an SSEService formatter ends: format_sse has no try, so the
\* TypeError of json.dumps leaves the formatter; otherwise the unit is returned
Outcome(fn, args, data, unit) ==
    IF Serializable(Dict(data))
    THEN [fn |-> fn, args |-> args, raised |-> "none", unit |-> <<unit>>]
    ELSE [fn |-> fn, args |-> args, raised |-> "TypeError", unit |-> <<>>]

CallFormatSse ==
    /\ \E t \in Texts, event \in Channels :
         LET data == << <<"type", Str(<<"text-delta">>)>>, <<"content", Str(t)>> >>
         IN  enc' = Outcome("format_sse", <<data, event>>, data, format_sse(data, event))
    /\ UNCHANGED <<streamvars, apivars, linkvars, sse, prompt>>

CallStreamError ==
    /\ \E msg \in Texts :
         enc' = Outcome("stream_error", <<msg>>, <<>>, stream_error(msg))
    /\ UNCHANGED <<streamvars, apivars, linkvars, sse, prompt>>

CallStreamToolResult ==
    /\ \E tool \in ToolNames, out \in Payloads :
         enc' = Outcome("stream_tool_result", <<tool, out>>, << <<"output", out>> >>,
                        stream_tool_result(tool, out))
    /\ UNCHANGED <<streamvars, apivars, linkvars, sse, prompt>>

CallStreamData ==
    /\ \E ty \in DataTypes, d \in Payloads :
         enc' = Outcome("stream_data", <<ty, d>>, << <<"data", d>> >>,
                        stream_data(ty, d))
    /\ UNCHANGED <<streamvars, apivars, linkvars, sse, prompt>>

NextEncoder ==
    \/ CallFormatSse
    \/ CallStreamError
    \/ CallStreamToolResult
    \/ CallStreamData

\* the formatters applied to every payload of the bounded sets
SpecEncoder == Init /\ [][NextEncoder]_vars

----------------------------------------------------------------------------
(* Chat service and chat endpoints *)

\* variant: the query filters on the chat id alone
get_chat_AnyOwner(chs, chat_id, user_id) ==
    LET hit == {c \in chs : c.id = chat_id}
    IN  IF hit = {} THEN <<>> ELSE <<CHOOSE c \in hit : TRUE>>

\* ChatService.get_chat: filter(Chat.id == chat_id, Chat.user_id == user_id).first();
\* <<>> is None
get_chat(chs, chat_id, user_id) ==
    LET hit == {c \in chs : c.id = chat_id /\ c.user_id = user_id}
    IN  IF hit = {} THEN <<>> ELSE <<CHOOSE c \in hit : TRUE>>

\* order_by(Message.created_at.desc()): newest first
RECURSIVE order_by_created_at_desc(_)
order_by_created_at_desc(found) ==
    IF found = {} THEN <<>>
    ELSE LET first == CHOOSE r \in found : \A q \in found : r.created_at >= q.created_at
         IN  <<first>> \o order_by_created_at_desc(found \ {first})

\* order_by(Message.created_at.asc()): oldest first
RECURSIVE order_by_created_at_asc(_)
order_by_created_at_asc(found) ==
    IF found = {} THEN <<>>
    ELSE LET first == CHOOSE r \in found : \A q \in found : r.created_at <= q.created_at
         IN  <<first>> \o order_by_created_at_asc(found \ {first})

\* .limit(n)
Limit(q, n) == SubSeq(q, 1, IF Len(q) < n THEN Len(q) ELSE n)

\* ChatService.get_messages:
\* filter(Message.chat_id == chat_id).order_by(created_at.asc()).limit(limit).all()
get_messages(rows, chat_id, limit) ==
    Limit(order_by_created_at_asc({rows[i] : i \in {j \in 1..Len(rows) :
                                                      rows[j].chat_id = chat_id}}),
          limit)

\* variant: the chat row is deleted and its messages are left behind
delete_chat_NoCascade(chs, rows, chat_id, user_id) ==
    LET chat == get_chat(chs, chat_id, user_id)
    IN  IF chat # <<>>
        THEN [deleted |-> TRUE, chats |-> chs \ {chat[1]}, messages |-> rows]
        ELSE [deleted |-> FALSE, chats |-> chs, messages |-> rows]

\* ChatService.delete_chat; db.delete(chat) takes the chat's messages along
\* (cascade="all, delete-orphan")
delete_chat(chs, rows, chat_id, user_id) ==
    LET chat == get_chat(chs, chat_id, user_id)
    IN  IF chat # <<>>
        THEN [deleted |-> TRUE,
              chats |-> chs \ {chat[1]},
              messages |-> SelectSeq(rows, LAMBDA row : row.chat_id # chat_id)]
        ELSE [deleted |-> FALSE, chats |-> chs, messages |-> rows]

\* "if not data"
NotData(body) == body.json = "none" \/ BodyKeys(body) = {}

\* variant: "if not message"
MessageRequired_NoPartsCheck(body) ==
    ~body.message.present \/ body.message.keys = {}

\* "if not message or not message.get("parts")"
MessageRequired(body) ==
    \/ ~body.message.present \/ body.message.keys = {}
    \/ "parts" \notin body.message.keys \/ body.message.parts = <<>>

\* the handler of POST /api/chat for one request; cap bounds the rows stored
create_or_continue_chat_request(user, body, cap) ==
    /\   LET r == Request("create_or_continue_chat", user, NoChatArg, body)
             found == IF body.chat_id.kind = "uuid"
                      THEN get_chat(chats, body.chat_id.id, user)
                      ELSE <<>>
             chat_uuid == IF found # <<>> THEN found[1].id ELSE chat_seq + 1
             role == IF "role" \in body.message.keys THEN body.message.role ELSE "user"
             rows(outcome) ==
                 add_message(messages, chat_uuid, role, body.message.parts, outcome)
         IN  IF user = NoUser
             THEN /\ resp' = Reply(r, 401, "Unauthorized", "none")
                  /\ UNCHANGED <<chats, chat_seq, messages>>
             ELSE IF NotData(body)
             THEN /\ resp' = Reply(r, 400, "Invalid request body", "none")
                  /\ UNCHANGED <<chats, chat_seq, messages>>
             ELSE IF MessageRequired(body)
             THEN /\ resp' = Reply(r, 400, "Message is required", "none")
                  /\ UNCHANGED <<chats, chat_seq, messages>>
             ELSE
             \/ /\ found = <<>>
                \* llm_service.generate_title raises
                /\ resp' = [Reply(r, 500, "generate_title", "closed")
                               EXCEPT !.title_calls = 1]
                /\ UNCHANGED <<chats, chat_seq, messages>>
             \/ \E outcome \in PersistOutcomes :
                  /\ Len(messages) < cap
                  /\ found = <<>> => chat_seq < MaxChats
                  /\ chats' = IF found = <<>>
                              THEN chats \cup {[id |-> chat_uuid, user_id |-> user]}
                              ELSE chats
                  /\ chat_seq' = IF found = <<>> THEN chat_seq + 1 ELSE chat_seq
                  /\ messages' = rows(outcome)
                  /\ resp' = IF outcome = "ok"
                             THEN [Reply(r, 200, "", "open")
                                      EXCEPT !.title_calls = IF found = <<>> THEN 1 ELSE 0,
                                             !.stream = <<[chat_id |-> chat_uuid,
                                                           history |-> get_messages(rows(outcome), chat_uuid,
                                                                                   DefaultLimit)]>>]
                             ELSE [Reply(r, 500, "add_message", "closed")
                                      EXCEPT !.title_calls = IF found = <<>> THEN 1 ELSE 0]
    /\ UNCHANGED <<runvars, callvars>>

\* POST /api/chat
create_or_continue_chat ==
    /\ \E user \in Users \cup {NoUser}, body \in Bodies :
         create_or_continue_chat_request(user, body, MaxMessages)
    /\ UNCHANGED linkvars

\* DELETE /api/chat?id=
delete_chat_route ==
    /\ \E user \in Users \cup {NoUser}, arg \in ChatIdArgs :
         LET r == Request("delete_chat", user, arg, NoBody)
             d == delete_chat(chats, messages, arg.id, user)
         IN  IF user = NoUser
             THEN /\ resp' = Reply(r, 401, "Unauthorized", "none")
                  /\ UNCHANGED <<chats, messages>>
             ELSE IF arg.kind = "absent"
             THEN /\ resp' = Reply(r, 400, "Chat ID is required", "none")
                  /\ UNCHANGED <<chats, messages>>
             ELSE IF arg.kind = "malformed"
             THEN /\ resp' = Reply(r, 400, "Invalid chat ID format", "closed")
                  /\ UNCHANGED <<chats, messages>>
             ELSE /\ chats' = d.chats
                  /\ messages' = d.messages
                  /\ resp' = IF d.deleted
                             THEN [Reply(r, 200, "", "closed") EXCEPT !.deleted = TRUE]
                             ELSE Reply(r, 404, "Chat not found", "closed")
    /\ UNCHANGED <<chat_seq, runvars, callvars, linkvars>>

\* GET /api/chat/<chat_id>/messages
get_chat_messages ==
    /\ \E user \in Users \cup {NoUser}, arg \in ChatIdArgs \ {NoChatArg} :
         LET r == Request("get_chat_messages", user, arg, NoBody)
         IN  resp' =
                 IF user = NoUser THEN Reply(r, 401, "Unauthorized", "none")
                 ELSE IF arg.kind = "malformed"
                 THEN Reply(r, 400, "Invalid chat ID format", "closed")
                 ELSE IF get_chat(chats, arg.id, user) = <<>>
                 THEN Reply(r, 404, "Chat not found", "closed")
                 ELSE [Reply(r, 200, "", "closed")
                          EXCEPT !.listed = get_messages(messages, arg.id, DefaultLimit)]
    /\ UNCHANGED <<chats, chat_seq, messages, runvars, callvars, linkvars>>

NextApi ==
    \/ create_or_continue_chat
    \/ delete_chat_route
    \/ get_chat_messages

\* the endpoints serving requests over one store
SpecApi == Init /\ [][NextApi]_vars

----------------------------------------------------------------------------
(* Requests and their streams together *)

\* bodies that pass validation
ChatBodies == {body \in Bodies : ~NotData(body) /\ ~MessageRequired(body)}

\* bodies whose message names the role "assistant": message.get("role",
\* "user") is stored as the client sent it
RoleBodies ==
    {[body EXCEPT !.message.keys = {"role", "parts"}, !.message.role = "assistant"] :
        body \in ChatBodies}

\* POST /api/chat with a complete body, sent once the streams of the earlier
\* responses have ended, and answered with a streaming response: the
\* transport takes the generator of the response as the next stream
ServeChatOf(users, bodies) ==
    /\ \A s \in 1..built : bridge_pc[s] = "finished"
    /\ \E user \in users, body \in bodies :
         create_or_continue_chat_request(user, body,
                                         MaxMessages * Cardinality(Streams))
    /\ resp'.status = 200
    /\ built < Cardinality(Streams)
    /\ built' = built + 1
    /\ chat_of' = [chat_of EXCEPT ![built + 1] = resp'.stream[1].chat_id]

ServeChat == ServeChatOf(Users, ChatBodies)

\* the requests of one user, whose messages name a role or none
ServeChatWithRole == ServeChatOf({"u1"}, ChatBodies \cup RoleBodies)

\* the fragment the sources yield in SpecChat
PlainFragment == <<"a">>

\* requests are served and the streams of their responses are pulled, to the
\* end or until the client disconnects; every chunk a source hands over is
\* the same fragment
NextChat ==
    \/ ServeChat
    \/ \E s \in 1..built :
        /\ \/ PullStart(s)
           \/ PullToken(s)
           \/ PullExhaust(s)
           \/ PullSourceFail(s)
           \/ PullEnd(s)
           \/ Close(s)
        /\ \A i \in 1..Len(src_raw'[s]) : src_raw'[s][i] = PlainFragment

SpecChat == Init /\ [][NextChat]_vars

NextChatRoles ==
    \/ ServeChatWithRole
    \/ \E s \in 1..built :
        /\ \/ PullStart(s)
           \/ PullToken(s)
           \/ PullExhaust(s)
           \/ PullSourceFail(s)
           \/ PullEnd(s)
           \/ Close(s)
        /\ \A i \in 1..Len(src_raw'[s]) : src_raw'[s][i] = PlainFragment

SpecChatRoles == Init /\ [][NextChatRoles]_vars


\* one user keeps one chat going: the first POST /api/chat creates the chat,
\* every later one names it; the chat grows past the default page of
\* get_messages
ContinueLongChat ==
    /\ \E body \in ChatBodies :
         /\ body.chat_id = IF chats = {} THEN NoChatArg ELSE [kind |-> "uuid", id |-> 1]
         /\ create_or_continue_chat_request("u1", body, DefaultLimit + 1)
    /\ resp'.status = 200
    /\ UNCHANGED linkvars

NextLongChat == ContinueLongChat

SpecLongChat == Init /\ [][NextLongChat]_vars

----------------------------------------------------------------------------
(* LLMService._convert_messages_to_prompt *)

TextPart(text) == [type |-> "text", text |-> text]
ImagePart == [type |-> "image", text |-> <<"png">>]

\* values of msg["parts"]
PartLists ==
    {<<>>, <<TextPart(<<>>)>>, <<TextPart(<<"h", "i">>)>>, <<ImagePart>>,
     <<TextPart(<<"h">>), ImagePart, TextPart(<<"i">>)>>}

\* history messages: a role or none, and a "parts" key, a "content" key or
\* neither
HistoryMessages ==
    {[has_role |-> hr, role |-> r, keys |-> "parts", parts |-> p, content |-> <<>>] :
        hr \in {TRUE}, r \in {"user", "assistant", "system"}, p \in PartLists}
    \cup {[has_role |-> FALSE, role |-> "", keys |-> "parts", parts |-> p, content |-> <<>>] :
        p \in PartLists}
    \cup {[has_role |-> TRUE, role |-> r, keys |-> k, parts |-> <<>>, content |-> c] :
        r \in {"user", "assistant", "system"}, k \in {"content"}, c \in {<<>>, <<"y", "o">>}}
    \cup {[has_role |-> TRUE, role |-> r, keys |-> "none", parts |-> <<>>, content |-> <<>>] :
        r \in {"user", "assistant"}}

Histories == UNION {[1..n -> HistoryMessages] : n \in 0..MaxHistory}

\* system_prompt: None, "" or a directive
SystemPrompts ==
    {[given |-> FALSE, text |-> <<>>], [given |-> TRUE, text |-> <<>>],
     [given |-> TRUE, text |-> <<"be brief">>]}

\* msg.get("role", "user")
RoleOfMessage(msg) == IF msg.has_role THEN msg.role ELSE "user"

\* the content the loop collects for one message
ContentOfMessage(msg) ==
    IF msg.keys = "parts"
    THEN Concat([i \in 1..Len(msg.parts) |->
                    IF msg.parts[i].type = "text" THEN msg.parts[i].text ELSE <<>>])
    ELSE IF msg.keys = "content" THEN msg.content
    ELSE <<>>

\* variant: the "if content:" test is left out
prompt_parts_of_KeepEmpty(msg) ==
    IF RoleOfMessage(msg) = "user"
    THEN << <<"User: ">> \o ContentOfMessage(msg) >>
    ELSE IF RoleOfMessage(msg) = "assistant"
    THEN << <<"Assistant: ">> \o ContentOfMessage(msg) >>
    ELSE <<>>

\* what one message appends to prompt_parts
prompt_parts_of(msg) ==
    IF ContentOfMessage(msg) = <<>> THEN <<>>
    ELSE IF RoleOfMessage(msg) = "user"
    THEN << <<"User: ">> \o ContentOfMessage(msg) >>
    ELSE IF RoleOfMessage(msg) = "assistant"
    THEN << <<"Assistant: ">> \o ContentOfMessage(msg) >>
    ELSE <<>>

\* sep.join(lines) for a separator of several characters
JoinText(sep, lines) ==
    Concat([i \in 1..Len(lines) |-> (IF i = 1 THEN <<>> ELSE sep) \o lines[i]])

convert_messages_to_prompt(msgs, system_prompt) ==
    LET head == IF system_prompt.given /\ system_prompt.text # <<>>
                THEN << <<"System: ">> \o system_prompt.text \o <<"\n">> >>
                ELSE <<>>
        prompt_parts ==
            head \o Concat([i \in 1..Len(msgs) |-> prompt_parts_of(msgs[i])])
                 \o << <<"Assistant:">> >>
    IN  JoinText(<<"\n", "\n">>, prompt_parts)

\* one call of the conversion on a history and a system prompt
CallConvertMessagesToPrompt ==
    /\ prompt.fn = "none"
    /\ \E msgs \in Histories, system_prompt \in SystemPrompts :
         prompt' = [fn |-> "_convert_messages_to_prompt",
                    messages |-> msgs,
                    system_prompt |-> system_prompt,
                    result |-> convert_messages_to_prompt(msgs, system_prompt)]
    /\ UNCHANGED <<streamvars, apivars, linkvars, enc, sse>>

NextPrompt == CallConvertMessagesToPrompt

SpecPrompt == Init /\ [][NextPrompt]_vars

----------------------------------------------------------------------------
(* SSEService.stream_chat_response: an async generator over a token iterator *)

\* token iterators: up to MaxFragments strings, the empty string among them,
\* after which the iterator is exhausted or raises
TokenRuns == UNION {[1..n -> Tokens \cup {<<>>}] : n \in 0..MaxFragments}

\* stream_chat_response(tokens, message_id) is called: nothing runs yet
SseCall ==
    /\ sse.pc = "none"
    /\ \E tokens \in TokenRuns, fails \in BOOLEAN, id \in Streams :
         sse' = [NoGenerator EXCEPT !.pc = "created", !.tokens = tokens,
                                    !.fails = fails, !.message_id = UuidStr(id)]
    /\ UNCHANGED <<streamvars, apivars, linkvars, enc, prompt>>

\* first __anext__: message-start is yielded
SseStart ==
    /\ sse.pc = "created"
    /\ sse' = [sse EXCEPT !.pc = "at_start",
                          !.out = Append(@, format_sse(
                                      << <<"type", Str(<<"message-start">>)>>,
                                         <<"id", Str(sse.message_id)>> >>, "message"))]
    /\ UNCHANGED <<streamvars, apivars, linkvars, enc, prompt>>

\* __anext__: the iterator hands over its next token, text-delta is yielded
SseToken ==
    /\ sse.pc \in {"at_start", "at_delta"}
    /\ sse.taken < Len(sse.tokens)
    /\ sse' = [sse EXCEPT !.pc = "at_delta",
                          !.taken = @ + 1,
                          !.out = Append(@, TextDelta(sse.tokens[sse.taken + 1]))]
    /\ UNCHANGED <<streamvars, apivars, linkvars, enc, prompt>>

\* __anext__: the iterator is exhausted, message-finish is yielded
SseFinish ==
    /\ sse.pc \in {"at_start", "at_delta"}
    /\ sse.taken = Len(sse.tokens)
    /\ ~sse.fails
    /\ sse' = [sse EXCEPT !.pc = "at_finish",
                          !.out = Append(@, format_sse(
                                      << <<"type", Str(<<"message-finish">>)>>,
                                         <<"id", Str(sse.message_id)>> >>, "message"))]
    /\ UNCHANGED <<streamvars, apivars, linkvars, enc, prompt>>

\* variant: the loop is wrapped in "except Exception as e: yield stream_error(str(e))"
SseFail_EmitError ==
    /\ sse.pc \in {"at_start", "at_delta"}
    /\ sse.taken = Len(sse.tokens)
    /\ sse.fails
    /\ \E e \in SourceFailures :
         sse' = [sse EXCEPT !.pc = "at_finish", !.out = Append(@, stream_error(str(e)))]
    /\ UNCHANGED <<streamvars, apivars, linkvars, enc, prompt>>

\* __anext__: the iterator raises; the generator has no handler, so the
\* exception leaves __anext__ and the generator is finished
SseFail ==
    /\ sse.pc \in {"at_start", "at_delta"}
    /\ sse.taken = Len(sse.tokens)
    /\ sse.fails
    /\ \E e \in SourceFailures :
         sse' = [sse EXCEPT !.pc = "raised", !.raised = e.type]
    /\ UNCHANGED <<streamvars, apivars, linkvars, enc, prompt>>

\* __anext__ after message-finish: StopAsyncIteration
SseEnd ==
    /\ sse.pc = "at_finish"
    /\ sse' = [sse EXCEPT !.pc = "done", !.eos = 1]
    /\ UNCHANGED <<streamvars, apivars, linkvars, enc, prompt>>

NextSse ==
    \/ SseCall
    \/ SseStart
    \/ SseToken
    \/ SseFinish
    \/ SseFail
    \/ SseEnd

SpecSse == Init /\ [][NextSse]_vars

----------------------------------------------------------------------------
(* Vocabulary of the properties *)

RECURSIVE DeltaContents(_)
\* contents of the text-delta units of q, in order
DeltaContents(q) ==
    IF q = <<>> THEN <<>>
    ELSE IF TypeOf(Head(q)) = "text-delta"
         THEN <<Field(Head(q).data, "content")[2]>> \o DeltaContents(Tail(q))
         ELSE DeltaContents(Tail(q))

Has(q, type) == \E i \in 1..Len(q) : TypeOf(q[i]) = type

\* the transport pulled the bridge until it reported end-of-stream
PulledToEnd(s) == eos[s] >= 1 /\ ~closed_early[s]

\* the transport closed the bridge after an event that was not terminal
StoppedMidStream(s) ==
    /\ closed_early[s]
    /\ Len(delivered[s]) >= 1
    /\ ~IsTerminal(Last(delivered[s]))

IsPrefix(p, q) == Len(p) <= Len(q) /\ SubSeq(q, 1, Len(p)) = p

----------------------------------------------------------------------------
(* C1: a terminal event (message-finish or error) is always the last event
   of a stream, so there is never more than one and nothing follows it; and
   a stream pulled to end-of-stream has delivered one. *)
C1_SingleTerminal ==
    \A s \in Streams :
        /\ \A i \in 1..Len(emitted[s]) :
               IsTerminal(emitted[s][i]) => i = Len(emitted[s])
        /\ \A i \in 1..Len(delivered[s]) :
               IsTerminal(delivered[s][i]) => i = Len(delivered[s])
        /\ PulledToEnd(s) =>
               /\ Len(delivered[s]) >= 1
               /\ IsTerminal(Last(delivered[s]))

C1_Witness ==
    /\ PulledToEnd(1)
    /\ Len(delivered[1]) = 4
    /\ TypeOf(Last(delivered[1])) = "message-finish"

(* C2: the first event of a started stream is message-start, it is the only
   message-start, and so no delta, finish or error comes before it, also
   when the source fails or is exhausted on its first pull. *)
C2_StartFirst ==
    \A s \in Streams :
        /\ co_pc[s] # "none" => Len(emitted[s]) >= 1
        /\ \A i \in 1..Len(emitted[s]) :
               (TypeOf(emitted[s][i]) = "message-start") <=> (i = 1)
        /\ \A i \in 1..Len(delivered[s]) :
               (TypeOf(delivered[s][i]) = "message-start") <=> (i = 1)

C2_Witness ==
    /\ src_pc[1] = "failed"
    /\ src_pulls[1] = 0
    /\ Len(delivered[1]) = 2
    /\ TypeOf(delivered[1][1]) = "message-start"
    /\ TypeOf(delivered[1][2]) = "error"

(* C3: a stream in which an error event was emitted has made no add_message
   call for the assistant reply, whatever caused the error. *)
C3_NoPersistOnError ==
    \A s \in Streams : Has(emitted[s], "error") => persist_calls[s] = <<>>

(* C4: a stream calls add_message for the assistant reply at most once, and
   exactly once when its source was exhausted without failure and the
   transport pulled to end-of-stream. *)
C4_PersistAtMostOnce ==
    \A s \in Streams :
        /\ Len(persist_calls[s]) <= 1
        /\ (PulledToEnd(s) /\ src_pc[s] = "exhausted") => Len(persist_calls[s]) = 1

C4_Witness ==
    /\ PulledToEnd(1)
    /\ src_pc[1] = "exhausted"
    /\ src_pulls[1] = 1
    /\ Len(persist_calls[1]) = 1

(* C5: the accumulated response is always the concatenation of the contents
   of the text-delta events emitted so far, it only grows by appending, and
   the text handed to add_message is the concatenation of the text-delta
   contents delivered to the transport. *)
C5_Accumulation ==
    /\ [](\A s \in Streams :
            /\ full_response[s] = Concat(DeltaContents(emitted[s]))
            /\ \A i \in 1..Len(persist_calls[s]) :
                   persist_calls[s][i].text = Concat(DeltaContents(delivered[s])))
    /\ [][\A s \in Streams : IsPrefix(full_response[s], full_response'[s])]_vars

C5_Witness ==
    /\ Len(persist_calls[1]) = 1
    /\ persist_calls[1][1].outcome = "ok"
    /\ persist_calls[1][1].text = <<"b", "c", "a">>
    /\ Len(DeltaContents(delivered[1])) = 2

(* C6: once the transport has closed the bridge before end-of-stream, the
   coordinator is no longer suspended, the request's session has been
   closed and the source is no longer streaming. *)
C6_CloseReleases ==
    \A s \in Streams :
        closed_early[s] =>
            /\ co_pc[s] \in {"none", "closed", "done"}
            /\ db_closes[s] >= 1
            /\ src_pc[s] # "streaming"

(* C7: after the transport stopped a stream behind a non-terminal event no
   fragment is pulled from the source, no event is emitted or delivered,
   and add_message has not been and is not called for the stream. *)
C7_NothingAfterStop ==
    [][\A s \in Streams :
           StoppedMidStream(s) =>
               /\ src_pulls'[s] = src_pulls[s]
               /\ src_pc'[s] \in {src_pc[s], "released"}
               /\ emitted'[s] = emitted[s]
               /\ delivered'[s] = delivered[s]
               /\ persist_calls[s] = <<>>
               /\ persist_calls'[s] = <<>>
               /\ messages' = messages]_vars

C7_Witness ==
    /\ StoppedMidStream(1)
    /\ Len(delivered[1]) = 2
    /\ TypeOf(Last(delivered[1])) = "text-delta"
    /\ co_pc[1] = "closed"

(* C8: no failure of the source leaves the bridge as an exception; a stream
   whose source failed after k fragments and that was pulled to
   end-of-stream delivered message-start, the k deltas, then one error. *)
C8_SourceFailureContained ==
    \A s \in Streams :
        /\ ~escaped[s]
        /\ (src_pc[s] = "failed" /\ bridge_pc[s] = "finished" /\ ~closed_early[s]) =>
               /\ eos[s] >= 1
               /\ Len(delivered[s]) = src_pulls[s] + 2
               /\ TypeOf(delivered[s][1]) = "message-start"
               /\ \A i \in 2..(Len(delivered[s]) - 1) :
                      TypeOf(delivered[s][i]) = "text-delta"
               /\ TypeOf(Last(delivered[s])) = "error"
               /\ Concat(DeltaContents(delivered[s])) = full_response[s]

C8_Witness ==
    /\ src_pc[1] = "failed"
    /\ src_pulls[1] = 2
    /\ eos[1] >= 1
    /\ ~closed_early[1]
    /\ Len(delivered[1]) = 4

(* C9: every add_message call of a stream comes after the stream's
   message-finish event was emitted. *)
C9_FinishBeforePersist ==
    \A s \in Streams :
        \A i \in 1..Len(log[s]) :
            log[s][i] = "add_message" =>
                \E j \in 1..(i - 1) : log[s][j] = "message-finish"

(* C10: when the add_message call of a stream fails, no error event is
   emitted, no exception leaves the bridge, and the terminal event the
   stream delivers is message-finish. *)
C10_PersistFailureSilent ==
    \A s \in Streams :
        (\E i \in 1..Len(persist_calls[s]) : persist_calls[s][i].outcome # "ok") =>
            /\ ~Has(emitted[s], "error")
            /\ ~escaped[s]
            /\ Has(emitted[s], "message-finish")

(* C11: the units the bridge has handed to the transport are exactly the
   units the coordinator has yielded, in the same order, none twice and none
   missing, after every sequence of pulls and closes. *)
C11_BridgeFaithful ==
    \A s \in Streams : delivered[s] = emitted[s]

C11_Witness ==
    /\ Len(emitted[1]) = 3
    /\ delivered[1] = emitted[1]
    /\ bridge_pc[1] = "suspended"
    /\ co_pc[1] = "at_delta"

(* C12: a stream whose source yielded no fragment and was exhausted without
   failure consists of message-start followed by message-finish, and the
   text handed to add_message is the empty string. *)
C12_EmptyGeneration ==
    \A s \in Streams :
        (src_pc[s] = "exhausted" /\ src_pulls[s] = 0) =>
            /\ Len(emitted[s]) = 2
            /\ TypeOf(emitted[s][1]) = "message-start"
            /\ TypeOf(emitted[s][2]) = "message-finish"
            /\ Len(persist_calls[s]) = 1
            /\ persist_calls[s][1].text = <<>>

\* the fragments the source of stream s has yielded: the non-empty chunks
OwnFragments(s) == SelectSeq(src_raw[s], Truthy)

\* the events stream s yields when its source and its add_message call
\* behave as recorded for s
AloneRuns(s) ==
    LET frags == OwnFragments(s)
        id == assistant_message_id[s]
        start == IF co_pc[s] = "none" THEN <<>>
                 ELSE <<MessageStart(id, ChatOf(s))>>
        deltas == [i \in 1..Len(frags) |-> TextDelta(frags[i])]
        ends == IF src_pc[s] = "exhausted"
                THEN IF persist_calls[s][1].outcome = "ok"
                     THEN {<<MessageFinish(id)>>}
                     ELSE {<<stream_error(str(StoreFailure))>>}
                ELSE IF src_pc[s] = "failed"
                THEN {<<stream_error(str(e))>> : e \in SourceFailures}
                ELSE {<<>>}
    IN  {start \o deltas \o end : end \in ends}

(* C13: with two streams pulled in any interleaving, the events delivered
   for a stream, its accumulated response and the text it hands to
   add_message are made of the fragments of its own source only, in order,
   and carry its own message id and chat id. *)
C13_Isolation ==
    \A s \in Streams :
        /\ delivered[s] \in AloneRuns(s)
        /\ full_response[s] = Concat(OwnFragments(s))
        /\ \A i \in 1..Len(persist_calls[s]) :
               persist_calls[s][i].text = Concat(OwnFragments(s))
        /\ \A i \in 1..Len(messages) :
               messages[i].chat_id = ChatOf(s) =>
                   messages[i].text = Concat(OwnFragments(s))

C13_Witness ==
    /\ co_pc[1] = "at_delta"
    /\ co_pc[2] = "at_delta"
    /\ full_response[1] = <<"a">>
    /\ full_response[2] = <<"b", "c", "a">>

(* C14: a bridge that was started and has finished has closed the event
   loop it created, whether it ended by exhaustion, by an exception or by
   the transport closing it; an unstarted bridge never created one. *)
C14_LoopClosed ==
    \A s \in Streams :
        /\ (bridge_pc[s] = "finished" /\ co_pc[s] # "none") => loop[s] = "closed"
        /\ bridge_pc[s] = "finished" => loop[s] # "open"
        /\ bridge_pc[s] = "suspended" => loop[s] = "open"

C14_Witness ==
    /\ closed_early[1]
    /\ co_pc[1] = "at_delta"
    /\ bridge_pc[1] = "finished"
    /\ loop[1] = "closed"

(* C15: once the bridge has reported end-of-stream, a further pull reports
   end-of-stream again and the bridge stays finished: no event is emitted or
   delivered, no fragment is pulled and add_message is not called. *)
C15_NotRestartable ==
    [][\A s \in Streams :
           eos[s] >= 1 =>
               /\ bridge_pc'[s] = "finished"
               /\ eos'[s] >= eos[s]
               /\ emitted'[s] = emitted[s]
               /\ delivered'[s] = delivered[s]
               /\ src_pulls'[s] = src_pulls[s]
               /\ src_raw'[s] = src_raw[s]
               /\ persist_calls'[s] = persist_calls[s]]_vars

C15_Witness ==
    /\ eos[1] = 2
    /\ ~closed_early[1]
    /\ co_pc[1] = "done"
    /\ TypeOf(Last(delivered[1])) = "message-finish"

(* C16: when the transport keeps pulling, the bridge eventually reports
   end-of-stream, and it has then delivered as many units as the source
   yielded fragments, plus two. *)
C16_Terminates ==
    /\ \A s \in Active : <>(eos[s] >= 1)
    /\ [](\A s \in Streams :
            PulledToEnd(s) => Len(delivered[s]) = src_pulls[s] + 2)

C16_Witness ==
    /\ eos[1] = 1
    /\ src_pulls[1] = 2
    /\ Len(delivered[1]) = 4
    /\ TypeOf(Last(delivered[1])) = "error"
    /\ src_pc[1] = "exhausted"

----------------------------------------------------------------------------
(* Encoder properties *)

Returned == enc.fn # "none" /\ enc.raised = "none"

\* w is an "event: <channel>" line, one "data: ..." line and a blank line,
\* with no newline anywhere else
Framed(w, channel) ==
    /\ Len(w) >= 7
    /\ w[1] = "event: " /\ w[2] = channel /\ w[3] = "\n"
    /\ w[4] = "data: "
    /\ w[Len(w) - 1] = "\n" /\ w[Len(w)] = "\n"
    /\ \A i \in 1..Len(w) : w[i] = "\n" => i \in {3, Len(w) - 1, Len(w)}

\* C17: every wire unit a formatter returns is an 'event: <channel>' line,
\* one 'data: <JSON>' line and a blank line; the blank-line boundary occurs
\* only at the end of the unit, also when the payload text holds newlines.
C17_SelfTerminating ==
    Returned =>
        /\ Framed(enc.unit[1].wire, enc.unit[1].event)
        /\ SubSeq(enc.unit[1].wire, 5, Len(enc.unit[1].wire) - 2)
               = json_dumps(Dict(enc.unit[1].data))

C17_Witness ==
    /\ Returned
    /\ enc.fn = "stream_tool_result"
    /\ enc.args[2] = Str(<<"\n", "\n">>)
    /\ enc.unit[1].wire[Len(enc.unit[1].wire)] = "\n"

\* C18: the encoder has no failure modes: for every payload, malformed or
\* non-text tool output and custom data included, a formatter call returns a
\* wire unit and never raises.
C18_NoFailureModes ==
    enc.fn # "none" => enc.raised = "none"

----------------------------------------------------------------------------
(* Endpoint and chat service properties *)

\* the body is missing, or its message is missing or has no parts
Incomplete(body) ==
    \/ body.json = "none"
    \/ ~body.message.present
    \/ "parts" \notin body.message.keys
    \/ body.message.parts = <<>>

\* C19: a chat request of an authenticated user with a missing body, a
\* missing message or a message with no parts is answered with status 400
\* before any stream begins, and the store is unchanged: no chat created, no
\* message added, the generation source never called.
C19_IncompleteRejected ==
    [][(/\ resp'.op = "create_or_continue_chat"
        /\ resp'.user \in Users
        /\ Incomplete(resp'.body))
         => /\ resp'.status = 400
            /\ resp'.stream = <<>>
            /\ resp'.title_calls = 0
            /\ resp'.db = "none"
            /\ chats' = chats
            /\ chat_seq' = chat_seq
            /\ messages' = messages]_vars

C19_Witness ==
    /\ resp.op = "create_or_continue_chat"
    /\ resp.user \in Users
    /\ resp.body.message.present
    /\ "parts" \in resp.body.message.keys
    /\ resp.body.message.parts = <<>>
    /\ resp.status = 400
    /\ chats # {}
    /\ messages # <<>>

\* C20: get_chat(chat_id, user_id) returns a chat only when a chat with that
\* id exists and its owner is user_id, and nothing for any other user; so
\* delete_chat by a user who does not own the chat returns False and leaves
\* the chat and its messages in place.
C20_OwnerOnly ==
    /\ [](\A id \in 1..MaxChats, u \in Users :
            get_chat(chats, id, u) =
                IF [id |-> id, user_id |-> u] \in chats
                THEN <<[id |-> id, user_id |-> u]>>
                ELSE <<>>)
    /\ [][(/\ resp'.op = "delete_chat"
           /\ resp'.user \in Users
           /\ resp'.chat_arg.kind = "uuid"
           /\ \E c \in chats : c.id = resp'.chat_arg.id /\ c.user_id # resp'.user)
            => /\ ~resp'.deleted
               /\ resp'.status = 404
               /\ chats' = chats
               /\ messages' = messages]_vars

C20_Witness ==
    /\ resp.op = "delete_chat"
    /\ resp.user \in Users
    /\ ~resp.deleted
    /\ \E c \in chats :
         /\ c.id = resp.chat_arg.id
         /\ c.user_id # resp.user
         /\ \E i \in 1..Len(messages) : messages[i].chat_id = c.id

----------------------------------------------------------------------------
(* Store properties *)

\* the rows of a chat in the order of the add_message calls that stored them
Added(chat_id) == SelectSeq(messages, LAMBDA row : row.chat_id = chat_id)

\* role and contents of each row of q
RolesAndContents(q) == [i \in 1..Len(q) |-> <<q[i].role, q[i].text>>]

\* stream s is the last one built for its chat
LatestOnChat(s) == \A t \in 1..built : t > s => chat_of[t] # chat_of[s]

\* C21: get_messages returns the messages of a chat oldest first: roles and
\* contents appear in the order of the add_message calls (the first
\* DefaultLimit of them), so after a successful stream the chat ends with the
\* user message followed by the assistant reply.
C21_OldestFirst ==
    /\ \A c \in 1..MaxChats :
         RolesAndContents(get_messages(messages, c, DefaultLimit))
             = RolesAndContents(Limit(Added(c), DefaultLimit))
    /\ \A s \in 1..built :
         (Has(emitted[s], "message-finish") /\ LatestOnChat(s)) =>
             LET got == get_messages(messages, chat_of[s], DefaultLimit)
             IN  /\ Len(got) >= 2
                 /\ got[Len(got) - 1].role = "user"
                 /\ got[Len(got)].role = "assistant"
                 /\ got[Len(got)].text = full_response[s]

C21_Witness ==
    /\ built = 2
    /\ chat_of[1] = chat_of[2]
    /\ Has(emitted[2], "message-finish")
    /\ RolesAndContents(get_messages(messages, chat_of[2], DefaultLimit))
           = << <<"user", <<"h", "i">> >>, <<"assistant", <<"a">> >>,
                <<"user", <<"h", "i">> >>, <<"assistant", <<"a", "a">> >> >>

\* C22: once delete_chat(chat_id, user_id) has returned True for the owner,
\* get_chat for that id returns nothing for every user and no message of the
\* chat can be retrieved; delete_chat on an id that does not exist returns
\* False and changes nothing.
C22_DeleteRemoves ==
    /\ [][(/\ resp'.op = "delete_chat"
           /\ resp'.user \in Users
           /\ resp'.chat_arg.kind = "uuid")
            => LET id == resp'.chat_arg.id
               IN  /\ [id |-> id, user_id |-> resp'.user] \in chats
                        => /\ resp'.deleted
                           /\ \A u \in Users : get_chat(chats', id, u) = <<>>
                           /\ get_messages(messages', id, DefaultLimit) = <<>>
                   /\ (\A c \in chats : c.id # id)
                        => /\ ~resp'.deleted
                           /\ chats' = chats
                           /\ messages' = messages]_vars
    /\ [](\A i \in 1..Len(messages) : \E c \in chats : c.id = messages[i].chat_id)

C22_Witness ==
    /\ resp.op = "delete_chat"
    /\ resp.deleted
    /\ resp.chat_arg.id = 1
    /\ \A c \in chats : c.id # 1
    /\ Len(messages) = 1
    /\ messages[1].chat_id = 2
    /\ messages[1].created_at = 2

----------------------------------------------------------------------------
(* Prompt properties *)

\* the history messages that have text and the role user or assistant
Speaking(msgs) ==
    SelectSeq(msgs, LAMBDA m : /\ ContentOfMessage(m) # <<>>
                               /\ RoleOfMessage(m) \in {"user", "assistant"})

\* positions of the entry labels in a prompt
LabelPositions(text) ==
    {i \in 1..Len(text) : text[i] \in {"User: ", "Assistant: "}}

\* the k-th smallest element of a set of numbers
Nth(S, k) == CHOOSE i \in S : Cardinality({j \in S : j <= i}) = k

\* C23: the prompt is the 'System: <directive>' line first when a system
\* directive is given, then one 'User: <text>' or 'Assistant: <text>' entry
\* for every history message with non-empty text, in history order, then a
\* final 'Assistant:' entry; messages with empty text or another role
\* contribute nothing.
C23_PromptLayout ==
    prompt.fn # "none" =>
        LET text == prompt.result
            sys == prompt.system_prompt
            directive == sys.given /\ sys.text # <<>>
            said == Speaking(prompt.messages)
            at == LabelPositions(text)
            lead == IF directive THEN Len(sys.text) + 4 ELSE 0
        IN  /\ directive =>
                SubSeq(text, 1, Len(sys.text) + 2) = <<"System: ">> \o sys.text \o <<"\n">>
            /\ ~directive => \A i \in 1..Len(text) : text[i] # "System: "
            /\ Cardinality(at) = Len(said)
            /\ \A k \in 1..Len(said) :
                 LET i == Nth(at, k)
                     content == ContentOfMessage(said[k])
                 IN  /\ text[i] = IF RoleOfMessage(said[k]) = "user"
                                  THEN "User: " ELSE "Assistant: "
                     /\ SubSeq(text, i + 1, i + Len(content)) = content
                     /\ SubSeq(text, i + Len(content) + 1, i + Len(content) + 2)
                            = <<"\n", "\n">>
                     /\ i = lead + 1 + 3 * (k - 1)
                              + Len(Concat([j \in 1..(k - 1) |-> ContentOfMessage(said[j])]))
            /\ text[Len(text)] = "Assistant:"
            /\ Len(text) = lead + 3 * Len(said) + 1
                              + Len(Concat([j \in 1..Len(said) |-> ContentOfMessage(said[j])]))

C23_Witness ==
    /\ prompt.fn # "none"
    /\ prompt.system_prompt.given /\ prompt.system_prompt.text # <<>>
    /\ Len(prompt.messages) = 2
    /\ RoleOfMessage(prompt.messages[1]) = "system"
    /\ ContentOfMessage(prompt.messages[1]) # <<>>
    /\ RoleOfMessage(prompt.messages[2]) = "assistant"
    /\ prompt.messages[2].parts = <<TextPart(<<"h">>), ImagePart, TextPart(<<"i">>)>>
    /\ prompt.result = <<"System: ", "be brief", "\n", "\n", "\n",
                         "Assistant: ", "h", "i", "\n", "\n", "Assistant:">>

----------------------------------------------------------------------------
(* Error event *)

\* the exception of a class, as the source or the store raises it
RaisedOfClass(type) == CHOOSE e \in SourceFailures \cup {StoreFailure} : e.type = type

\* C24: the error event of a stream carries as its message the description
\* of the failure that was raised into the coordinator, and its code is
\* 'internal_error' whatever the class of the failure.
C24_ErrorCarriesDescription ==
    \A s \in Streams : \A j \in 1..Len(emitted[s]) :
        TypeOf(emitted[s][j]) = "error" =>
            \E i \in 2..Len(log[s]) :
                /\ log[s][i] = "error"
                /\ log[s][i - 1] \in ExceptionClasses
                /\ Field(emitted[s][j].data, "error")
                       = Str(RaisedOfClass(log[s][i - 1]).args[1])
                /\ Field(emitted[s][j].data, "code") = Str(<<"internal_error">>)
                /\ emitted[s][j].event = "error"

C24_Witness ==
    \E s \in Streams, t \in Streams :
        /\ emitted[s] # <<>> /\ emitted[t] # <<>>
        /\ TypeOf(Last(emitted[s])) = "error"
        /\ TypeOf(Last(emitted[t])) = "error"
        /\ Field(Last(emitted[s]).data, "error") = Str(<<"timeout">>)
        /\ Field(Last(emitted[t]).data, "error") = Str(<<"db down">>)
        /\ Field(Last(emitted[s]).data, "code") = Field(Last(emitted[t]).data, "code")

----------------------------------------------------------------------------
(* Message identifiers *)

\* the streams that have produced their message-start
StartedStreams == {s \in Streams : emitted[s] # <<>>}

\* C25: the id carried by message-finish is the id carried by the
\* message-start of the same stream, the message-start carries the id of the
\* chat the request was resolved to, and two distinct streams never carry
\* the same message id.
C25_MessageIds ==
    /\ \A s \in StartedStreams :
        /\ TypeOf(emitted[s][1]) = "message-start"
        /\ Field(emitted[s][1].data, "chat_id") = Str(UuidStr(chat_of[s]))
        /\ \A j \in 1..Len(emitted[s]) :
             TypeOf(emitted[s][j]) \in {"message-start", "message-finish"} =>
                 Field(emitted[s][j].data, "id") = Field(emitted[s][1].data, "id")
    /\ \A s \in StartedStreams, t \in StartedStreams :
        s # t => \A i \in 1..Len(emitted[s]), j \in 1..Len(emitted[t]) :
            (/\ TypeOf(emitted[s][i]) \in {"message-start", "message-finish"}
             /\ TypeOf(emitted[t][j]) \in {"message-start", "message-finish"})
            => Field(emitted[s][i].data, "id") # Field(emitted[t][j].data, "id")

C25_Witness ==
    /\ StartedStreams = Streams
    /\ \A s \in Streams : TypeOf(Last(emitted[s])) = "message-finish"
    /\ chat_of[1] = chat_of[2]
    /\ Field(emitted[1][1].data, "id") # Field(emitted[2][1].data, "id")

----------------------------------------------------------------------------
(* History handed to the generation source *)

\* C26: the message history of an answered POST /api/chat is the full stored
\* history of the chat and has the just-submitted user message as its last
\* element, for a chat with any number of previously stored messages.
C26_FullHistory ==
    (resp.op = "create_or_continue_chat" /\ resp.status = 200) =>
        LET history == resp.stream[1].history
            chat_id == resp.stream[1].chat_id
        IN  /\ RolesAndContents(history) = RolesAndContents(Added(chat_id))
            /\ Last(history) = Last(messages)
            /\ Last(history).text = resp.body.message.parts

----------------------------------------------------------------------------
(* Session of the request *)

\* positions of an entry in the log of stream s
LogPositions(s, entry) == {i \in 1..Len(log[s]) : log[s][i] = entry}

\* C27: for a stream pulled to end-of-stream, on the finish path and on the
\* error path, the session is closed exactly once, after the terminal event
\* was produced and after any persistence call, and no store operation is
\* made on the session once it is closed.
C27_SessionClosedOnce ==
    /\ [](\A s \in Streams :
            PulledToEnd(s) =>
                /\ db_closes[s] = 1
                /\ Cardinality(LogPositions(s, "db.close")) = 1
                /\ \A c \in LogPositions(s, "db.close") :
                     /\ \E i \in LogPositions(s, "message-finish")
                                   \cup LogPositions(s, "error") : i < c
                     /\ \A i \in LogPositions(s, "add_message") : i < c)
    /\ [][\A s \in Streams :
            db_closes[s] >= 1 =>
                /\ persist_calls'[s] = persist_calls[s]
                /\ Added(ChatOf(s))' = Added(ChatOf(s))
                /\ db_closes'[s] = db_closes[s]]_vars

C27_Witness ==
    \E s \in Streams :
        /\ PulledToEnd(s)
        /\ eos[s] = MaxPullsAfterEnd
        /\ TypeOf(Last(emitted[s])) = "error"
        /\ Len(persist_calls[s]) = 1
        /\ persist_calls[s][1].outcome = "refresh_raises"
        /\ db_closes[s] = 1

----------------------------------------------------------------------------
(* Messages of a chat and the streams on it *)

\* the rows of a chat that carry a role
RowsWithRole(chat_id, role) ==
    {i \in 1..Len(messages) : messages[i].chat_id = chat_id /\ messages[i].role = role}

\* the streams built for a chat that produced message-finish
FinishedStreamsOn(chat_id) ==
    {s \in 1..built : chat_of[s] = chat_id /\ Has(emitted[s], "message-finish")}

\* C28: the message of the request is in the store when its stream exists
\* and the stream never removes it; when the generation fails or the client
\* disconnects mid-stream, the chat keeps that message as its last message
\* with no assistant reply after it; and the assistant messages of a chat
\* are never more than the streams on it that reached message-finish.
C28_UserMessageKept ==
    /\ \A s \in 1..built :
        /\ \E i \in 1..Len(messages) :
             /\ messages[i].chat_id = chat_of[s]
             /\ messages[i].text \in UserParts \ {<<>>}
        /\ (LatestOnChat(s) /\ (src_pc[s] = "failed" \/ StoppedMidStream(s))) =>
             Last(Added(chat_of[s])).text \in UserParts \ {<<>>}
    /\ \A c \in 1..MaxChats :
         Cardinality(RowsWithRole(c, "assistant")) <= Cardinality(FinishedStreamsOn(c))

----------------------------------------------------------------------------
(* Ownership of the chat a request writes to *)

\* owners of the chat with an id (none when no chat has the id)
OwnersOf(chat_id) == {c.user_id : c \in {d \in chats : d.id = chat_id}}

\* the rows a step adds to the store
NewRows == {messages'[i] : i \in (Len(messages) + 1)..Len(messages')}

\* C29: the chat endpoint never adds a message to a chat owned by another
\* user: when the chat_id of the request is absent, malformed, unknown or
\* names a chat of a different user, a new chat owned by the requester is
\* created, and the user message and the assistant reply are stored in that
\* chat only.
C29_OwnChatOnly ==
    /\ [](built >= 1 =>
            /\ resp.status = 200
            /\ chat_of[built] = resp.stream[1].chat_id
            /\ OwnersOf(chat_of[built]) = {resp.user})
    /\ [][/\ \A row \in NewRows : row.chat_id = chat_of'[built']
          /\ \A i \in 1..Len(messages) : messages'[i] = messages[i]
          /\ built' # built =>
               /\ NewRows # {}
               /\ (\/ resp'.body.chat_id.kind # "uuid"
                   \/ OwnersOf(resp'.body.chat_id.id) # {resp'.user}) =>
                      /\ OwnersOf(chat_of'[built']) = {}
                      /\ chats' = chats \cup {[id |-> chat_of'[built'], user_id |-> resp'.user]}
               /\ (/\ resp'.body.chat_id.kind = "uuid"
                   /\ OwnersOf(resp'.body.chat_id.id) = {resp'.user}) =>
                      /\ chat_of'[built'] = resp'.body.chat_id.id
                      /\ chats' = chats]_vars

C29_Witness ==
    /\ built = 2
    /\ resp.user = "u2"
    /\ resp.body.chat_id = [kind |-> "uuid", id |-> 1]
    /\ OwnersOf(1) = {"u1"}
    /\ OwnersOf(2) = {"u2"}
    /\ Has(emitted[2], "message-finish")
    /\ RolesAndContents(Added(1)) = << <<"user", <<"h", "i">> >>, <<"assistant", <<"a">> >> >>
    /\ RolesAndContents(Added(2)) = << <<"user", <<"h", "i">> >>, <<"assistant", <<>> >> >>

----------------------------------------------------------------------------
(* SSEService.stream_chat_response *)

\* C30: the generator emits message-start with the message id, then one
\* text-delta per token in order, then message-finish with the same id once
\* the iterator is exhausted; when the iterator fails after k tokens, the k
\* deltas have been emitted, the failure reaches the caller, and neither
\* message-finish nor an error event is emitted.
C30_SseSequence ==
    LET out == sse.out
        k == Len(sse.tokens)
    IN  /\ sse.pc \in {"none", "created"} => out = <<>>
        /\ sse.pc \notin {"none", "created"} =>
             /\ TypeOf(out[1]) = "message-start"
             /\ Field(out[1].data, "id") = Str(sse.message_id)
             /\ Len(out) >= 1 + sse.taken
             /\ \A i \in 1..sse.taken :
                  /\ TypeOf(out[1 + i]) = "text-delta"
                  /\ Field(out[1 + i].data, "content") = Str(sse.tokens[i])
        /\ sse.pc \in {"at_start", "at_delta"} => Len(out) = 1 + sse.taken
        /\ sse.pc \in {"at_finish", "done"} =>
             /\ Len(out) = k + 2 /\ sse.taken = k
             /\ TypeOf(out[k + 2]) = "message-finish"
             /\ Field(out[k + 2].data, "id") = Str(sse.message_id)
             /\ sse.raised = "none"
        /\ sse.pc = "raised" =>
             /\ Len(out) = k + 1 /\ sse.taken = k
             /\ sse.raised \in {e.type : e \in SourceFailures}
             /\ ~Has(out, "message-finish") /\ ~Has(out, "error")
        /\ (sse.fails /\ sse.pc # "none") => sse.pc \notin {"at_finish", "done"}

C30_Witness ==
    /\ sse.pc = "raised"
    /\ sse.tokens = << <<"a">>, <<>> >>
    /\ sse.raised = "TimeoutError"
    /\ Len(sse.out) = 3
    /\ Field(sse.out[3].data, "content") = Str(<<>>)

====
